---- MODULE Spec2Model ----
(***************************************************************************)
(* The deep-clone engine of package cloner (CloneManager): the dispatcher  *)
(* deepClone, the visited registry, the cloners registry and the six       *)
(* structural cloners, executed as an explicit call stack so that the      *)
(* order of registry writes and recursive descents is observable.          *)
(*                                                                         *)
(* Memory model.  Storage is a sequence of objects, heap; an address is an *)
(* index of heap.  A "mem" object is a block of consecutive slots (the     *)
(* referent of a pointer, the backing array of a slice), a "map" object is *)
(* a set of <<key, value>> entries.  reflect.Value.Pointer() of a pointer  *)
(* or slice is the address of a slot, written <<a, off>> (block a, slot    *)
(* offset off); of a map it is <<a, 0>>.                                   *)
(*                                                                         *)
(* A value (what a reflect.Value or an interface{} holds) is a record      *)
(*   k    kind: invalid, int, ptr, slice, array, map, struct, iface,       *)
(*        chan, func                                                       *)
(*   ty   name of its Go type                                              *)
(*   a    block address for ptr / slice / map, 0 when the value is nil     *)
(*   off, len, cap   slice header (off also the slot of a ptr)             *)
(*   n    scalar payload                                                   *)
(*   sub  struct fields / array elements / the dynamic value of an iface   *)
(*   ro   indices of the struct fields that cannot be set (unexported)     *)
(***************************************************************************)
EXTENDS Integers, Sequences, FiniteSets, TLC

VARIABLES heap, visited, cloners, stack, ret, result, input, calls, entered, probes, ran

\* heap      storage: objects by address
\* visited   cm.visited: storage address -> clone
\* cloners   cm.cloners: the types a Cloner is registered for
\* stack     the frames of the running Clone call, innermost last
\* ret       the (value, error) pair of the latest return
\* result    what Clone did: idle, running, returned (value, error), panic, overflow
\* input     the src handed to Clone
\* calls     the Cloneable / Cloner callbacks made so far, with their results,
\*           and (via = "Clone") the earlier top-level calls on this manager
\* entered   the values deepClone was called with so far
\* probes    the number of lookups in cm.visited so far
\* ran       the function whose code the latest step ran
vars == <<heap, visited, cloners, stack, ret, result, input, calls, entered, probes, ran>>

\* Deepest call stack the runtime grants before it aborts with a stack overflow.
MaxDepth == 14

\* Depth to which object graphs are unfolded when two graphs are compared.
MaxView == 7

\* Top-level calls made on one CloneManager.
MaxCalls == 2

----------------------------------------------------------------------------
(* Values *)

MkV(k, ty) ==
  [k |-> k, ty |-> ty, a |-> 0, off |-> 0, len |-> 0, cap |-> 0, n |-> 0,
   sub |-> <<>>, ro |-> {}]

\* The nil interface{} value; reflect.ValueOf(nil) is the invalid reflect.Value.
Nil == MkV("invalid", "")

IntV(ty, n) == [MkV("int", ty) EXCEPT !.n = n]
PtrV(ty, a, off) == [MkV("ptr", ty) EXCEPT !.a = a, !.off = off]
SliceV(ty, a, off, len, cap) ==
  [MkV("slice", ty) EXCEPT !.a = a, !.off = off, !.len = len, !.cap = cap]
MapV(ty, a) == [MkV("map", ty) EXCEPT !.a = a]
ChanV == MkV("chan", "chan int")
FuncV == MkV("func", "func()")
StructV(ty, fields, ro) == [MkV("struct", ty) EXCEPT !.sub = fields, !.ro = ro]
ArrayV(ty, elems) == [MkV("array", ty) EXCEPT !.sub = elems]
IfaceV(dyn) == [MkV("iface", "any") EXCEPT !.sub = <<dyn>>]
NilIface == MkV("iface", "any")

\* reflect.Value.IsValid
IsValid(v) == v.k # "invalid"

\* IsNil with the nil test of slices left out.
IsNilSkipsSlices(v) ==
  CASE v.k \in {"ptr", "map"} -> v.a = 0
    [] v.k = "iface" -> v.sub = <<>>
    [] OTHER -> FALSE

\* reflect.Value.IsNil for the kinds that have a nil
IsNil(v) ==
  CASE v.k \in {"ptr", "slice", "map"} -> v.a = 0
    [] v.k = "iface" -> v.sub = <<>>
    [] OTHER -> FALSE

\* reflect.Value.Pointer: the storage address that keys the visited registry
Pointer(v) == <<v.a, v.off>>

\* The zero value of the static type of the slot that holds v.
RECURSIVE Zero(_)
Zero(v) ==
  CASE v.k \in {"struct", "array"} ->
         [v EXCEPT !.sub = [i \in DOMAIN v.sub |-> Zero(v.sub[i])]]
    [] v.k = "iface" -> NilIface
    [] OTHER -> MkV(v.k, v.ty)

\* What reflect.Value.Interface() hands out: the dynamic value of an
\* interface-kinded Value, the value itself otherwise.
Dyn(v) == IF v.k = "iface" /\ v.sub # <<>> THEN v.sub[1] ELSE v

----------------------------------------------------------------------------
(* Storage *)

Mem(slots) == [t |-> "mem", e |-> slots, m |-> {}]
MapObj(entries) == [t |-> "map", e |-> <<>>, m |-> entries]

\* Addresses a value refers to, directly or through its inline parts.
RECURSIVE RefsV(_)
RefsV(v) ==
  IF v.k \in {"ptr", "slice", "map"}
  THEN IF v.a = 0 THEN {} ELSE {v.a}
  ELSE UNION {RefsV(v.sub[i]) : i \in DOMAIN v.sub}

\* Addresses the object o refers to.
RefsO(o) ==
  UNION ({RefsV(o.e[i]) : i \in DOMAIN o.e}
           \cup {RefsV(en[1]) \cup RefsV(en[2]) : en \in o.m})

\* The addresses of h reachable from the addresses in todo.
RECURSIVE ReachFrom(_, _, _)
ReachFrom(h, seen, todo) ==
  LET new == (todo \cap DOMAIN h) \ seen
  IN IF new = {} THEN seen
     ELSE ReachFrom(h, seen \cup new, UNION {RefsO(h[a]) : a \in new})

\* The types of v and of its inline parts.
RECURSIVE TypesV(_)
TypesV(v) == {v.ty} \cup UNION {TypesV(v.sub[i]) : i \in DOMAIN v.sub}

\* The types of the values held in the heap h.
TypesH(h) ==
  UNION {UNION ({TypesV(h[a].e[i]) : i \in DOMAIN h[a].e}
                  \cup {TypesV(en[1]) \cup TypesV(en[2]) : en \in h[a].m})
           : a \in DOMAIN h}

\* Storage reachable from the value v in the heap h.
Reach(h, v) == ReachFrom(h, {}, RefsV(v))

----------------------------------------------------------------------------
(* The source graphs.  Three objects exist before Clone is called:         *)
(*   1  a Node,   type Node struct { F any; P *Node; h any }, whose        *)
(*      unexported field h holds a channel                                 *)
(*   2  the two-slot backing array of a []any or of a []*Node              *)
(*   3  a map[any]any                                                      *)
(* Money is an integer type with a Clone method, *Acct a pointer type with *)
(* a Clone method, Stamp an integer type a Cloner may be registered for.   *)

CloneableTypes == {"Money", "*Acct"}
RegTypes == {"Stamp", "Money"}
SliceTypes == {"[]any", "[]*Node"}

Int1 == IntV("int", 1)
Int2 == IntV("int", 2)
NilNodePtr == PtrV("*Node", 0, 0)
NodePtr == PtrV("*Node", 1, 0)
NilAcct == PtrV("*Acct", 0, 0)
TheSlice(st) == SliceV(st, 2, 0, 2, 2)
NilSlice(st) == SliceV(st, 0, 0, 0, 0)
TheMap == MapV("map[any]any", 3)
NilMap == MapV("map[any]any", 0)
NodeV(f, p, h) == StructV("Node", <<f, p, h>>, {3})
Arr1(x) == ArrayV("[1]any", <<x>>)

ArrayVals == {Arr1(x) : x \in {NilIface, IfaceV(Int1), IfaceV(NodePtr), IfaceV(ChanV)}}

NodeVals(st) ==
  {NodeV(f, p, h) :
     f \in {NilIface, IfaceV(Int1), IfaceV(NodePtr), IfaceV(TheSlice(st)),
            IfaceV(TheMap), IfaceV(ChanV)},
     p \in {NilNodePtr, NodePtr},
     h \in {IfaceV(ChanV)}}

ElemVals(st) ==
  IF st = "[]*Node"
  THEN {<<x, y>> : x \in {NilNodePtr, NodePtr}, y \in {NilNodePtr, NodePtr}}
  ELSE {<<x, y>> :
          x \in {NilIface} \cup
                {IfaceV(d) : d \in {Int1, NodePtr, NilNodePtr, TheSlice(st), TheMap,
                                    ChanV, FuncV, IntV("Money", 1), IntV("Stamp", 1),
                                    NilAcct, Arr1(IfaceV(Int1))}},
          y \in {IfaceV(Int1), IfaceV(NodePtr), IfaceV(ChanV)}}

MapVals(st) ==
  {{}} \cup
  {{<<IfaceV(Int1), v>>} :
     v \in {IfaceV(Int1), NilIface, IfaceV(NodePtr), IfaceV(TheMap), IfaceV(ChanV),
            IfaceV(TheSlice(st))}} \cup
  {{<<k, IfaceV(Int1)>>} : k \in {IfaceV(ChanV), IfaceV(NilNodePtr)}} \cup
  {{<<IfaceV(Int1), v>>, <<IfaceV(Int2), w>>} :
     v \in {IfaceV(Int1), IfaceV(NodePtr), NilIface},
     w \in {IfaceV(NodePtr), IfaceV(ChanV)}}

InputVals(st) ==
  {Nil, Int1, IntV("Money", 1), IntV("Stamp", 1), NilNodePtr, NodePtr, NilAcct,
   NilSlice(st), TheSlice(st), NilMap, TheMap, ChanV, FuncV} \cup ArrayVals \cup
  {NodeV(f, p, NilIface) :
     f \in {IfaceV(Int1), IfaceV(TheSlice(st)), IfaceV(FuncV)}, p \in {NilNodePtr, NodePtr}}

\* An object no path from the input leads to is left in its zero state.
DefaultObj(a) ==
  CASE a = NodePtr.a -> Mem(<<NodeV(NilIface, NilNodePtr, IfaceV(ChanV))>>)
    [] a = TheSlice("[]any").a -> Mem(<<NilIface, IfaceV(Int1)>>)
    [] OTHER -> MapObj({})

Normalised(h, inp) ==
  \A a \in DOMAIN h : a \notin Reach(h, inp) => h[a] = DefaultObj(a)

----------------------------------------------------------------------------
(* The call stack *)

Frame(fn, pc, src) ==
  [fn |-> fn, pc |-> pc, src |-> src, i |-> 0, clone |-> Nil, keys |-> {},
   key |-> Nil, ck |-> Nil]

Top == stack[Len(stack)]
Callers == SubSeq(stack, 1, Len(stack) - 1)
At(fn, pc) == stack # <<>> /\ Top.fn = fn /\ Top.pc = pc

Outcome(st, v, e) == [st |-> st, v |-> v, err |-> e]
NoRet == [v |-> Nil, err |-> ""]

\* return v, e: the frame is popped; the bottom frame returns to the caller of Clone.
Return(v, e) ==
  /\ stack' = Callers
  /\ ret' = [v |-> v, err |-> e]
  /\ result' = IF Len(stack) = 1 THEN Outcome("returned", v, e) ELSE result
  /\ entered' = entered

\* cm.deepClone(arg), called from the top frame, which goes on as f.  A call
\* the runtime has no stack left for is fatal.
Call(f, arg) ==
  /\ ret' = ret
  /\ entered' = entered \cup {arg}
  /\ IF Len(stack) < MaxDepth
     THEN /\ stack' = Append(Callers, f) \o <<Frame("deepClone", "start", arg)>>
          /\ result' = result
     ELSE /\ stack' = <<>>
          /\ result' = Outcome("overflow", Nil, "")

\* A run-time panic unwinds the whole call.
Panic ==
  /\ stack' = <<>>
  /\ ret' = ret
  /\ result' = Outcome("panic", Nil, "")
  /\ entered' = entered

\* The error of the nested call is dropped.
NeverFailed(r) == FALSE

\* if err != nil
Failed(r) == r.err # ""

\* reflect.Value.Set and SetMapIndex panic on the zero reflect.Value, which is
\* what reflect.ValueOf(nil) is, and on a value the slot's type does not admit.
Assignable(slot, x) ==
  /\ IsValid(x)
  /\ slot.k = "iface" \/ (x.k = slot.k /\ x.ty = slot.ty)

\* The content of a slot after Set(reflect.ValueOf(x)); slot carries the
\* static type: a slot of interface type wraps the value.
Stored(slot, x) == IF slot.k = "iface" THEN IfaceV(x) ELSE x

\* src.Elem() of a pointer, src.Index(i) of a slice, src.MapIndex(key), src.MapKeys()
Elem(h, p) == h[p.a].e[p.off + 1]
Index(h, s, i) == h[s.a].e[s.off + i + 1]
MapIndex(h, m, key) == (CHOOSE en \in h[m.a].m : en[1] = key)[2]
MapKeys(h, m) == {en[1] : en \in h[m.a].m}

\* clone.Index(j - 1).Set(x) on the block a
SetSlot(h, a, j, x) == [h EXCEPT ![a].e[j] = x]

\* reflect.Value.SetMapIndex(key, elem) on the map a: a zero elem deletes the key.
SetMapIndex(h, a, key, slot, elem) ==
  LET others == {en \in h[a].m : en[1] # key}
  IN [h EXCEPT ![a].m = IF IsValid(elem) THEN others \cup {<<key, Stored(slot, elem)>>}
                        ELSE others]

----------------------------------------------------------------------------
(* CloneManager *)

\* NewCloneManager, and a source graph built by the caller.
Init ==
  \E st \in SliceTypes :
    \E nd \in NodeVals(st), es \in ElemVals(st), mp \in MapVals(st), inp \in InputVals(st) :
      LET h == <<Mem(<<nd>>), Mem(es), MapObj(mp)>>
      IN /\ Normalised(h, inp)
         /\ heap = h
         /\ input = inp
         /\ visited = <<>>
         /\ cloners = {}
         /\ stack = <<>>
         /\ ret = NoRet
         /\ result = Outcome("idle", Nil, "")
         /\ calls = <<>>
         /\ entered = {}
         /\ probes = 0
         /\ ran = ""

\* cm.RegisterCloner(t, cloner).  A cloner for a type that occurs nowhere in
\* the graph is never found by deepClone, so only the types that occur are
\* registered here.
RegisterCloner(t) ==
  /\ result.st = "idle"
  /\ t \notin cloners
  /\ t \in TypesV(input) \cup TypesH(heap)
  /\ cloners' = cloners \cup {t}
  /\ ran' = "RegisterCloner"
  /\ UNCHANGED <<heap, visited, stack, ret, result, input, calls, entered, probes>>

\* cm.Clone(src): deepClone(reflect.ValueOf(src))
Clone ==
  /\ result.st = "idle"
  /\ stack' = <<Frame("deepClone", "start", input)>>
  /\ result' = Outcome("running", Nil, "")
  /\ entered' = entered \cup {input}
  /\ ran' = "Clone"
  /\ UNCHANGED <<heap, visited, cloners, ret, input, calls, probes>>

\* Route with functions handed back as they are (the return that deepClone
\* keeps commented out in its Func case).
RouteFuncCopied(src, cl) ==
  CASE ~IsValid(src) -> "invalid"
    [] Dyn(src).ty \in CloneableTypes -> "cloneable"
    [] src.ty \in cl -> "cloner"
    [] src.k \in {"ptr", "slice", "array", "map", "struct", "iface"} -> "structural"
    [] src.k = "chan" -> "unclonable"
    [] OTHER -> "copy"

\* Route with the kind switch ahead of the cloners registry.
RouteKindFirst(src, cl) ==
  CASE ~IsValid(src) -> "invalid"
    [] Dyn(src).ty \in CloneableTypes -> "cloneable"
    [] src.k \in {"ptr", "slice", "array", "map", "struct", "iface"} -> "structural"
    [] src.ty \in cl -> "cloner"
    [] src.k \in {"chan", "func"} -> "unclonable"
    [] OTHER -> "copy"

\* Route with the cloners registry looked up before the Cloneable test.
RouteRegistryFirst(src, cl) ==
  CASE ~IsValid(src) -> "invalid"
    [] src.ty \in cl -> "cloner"
    [] Dyn(src).ty \in CloneableTypes -> "cloneable"
    [] src.k \in {"ptr", "slice", "array", "map", "struct", "iface"} -> "structural"
    [] src.k \in {"chan", "func"} -> "unclonable"
    [] OTHER -> "copy"

\* The branch deepClone takes for src, in the order of its tests.
Route(src, cl) ==
  CASE ~IsValid(src) -> "invalid"
    [] Dyn(src).ty \in CloneableTypes -> "cloneable"
    [] src.ty \in cl -> "cloner"
    [] src.k \in {"ptr", "slice", "array", "map", "struct", "iface"} -> "structural"
    [] src.k \in {"chan", "func"} -> "unclonable"
    [] OTHER -> "copy"

\* What the Clone method of a Cloneable, or a registered Cloner, may hand
\* back for d: a value of d's type held in storage of its own (address -1),
\* nothing, or an error.
CallbackResults(d) ==
  {[v |-> IF d.k = "ptr" THEN [d EXCEPT !.a = -1] ELSE d, err |-> ""],
   [v |-> Nil, err |-> ""],
   [v |-> Nil, err |-> "callback failed"]}

\* A callback through the interface via, and the return of its result.
Delegate(via) ==
  \E out \in CallbackResults(Dyn(Top.src)) :
    /\ calls' = Append(calls, [via |-> via, arg |-> Dyn(Top.src), out |-> out])
    /\ Return(out.v, out.err)

\* deepClone: if !src.IsValid() { return nil, nil }
DeepCloneInvalid ==
  /\ At("deepClone", "start")
  /\ Route(Top.src, cloners) = "invalid"
  /\ Return(Nil, "")
  /\ ran' = "deepClone"
  /\ UNCHANGED <<heap, visited, cloners, input, calls, probes>>

\* deepClone: return cloneable.Clone(cm)
DeepCloneCloneable ==
  /\ At("deepClone", "start")
  /\ Route(Top.src, cloners) = "cloneable"
  /\ Delegate("Cloneable")
  /\ ran' = "deepClone"
  /\ UNCHANGED <<heap, visited, cloners, input, probes>>

\* The registered-cloner branch with the engine memoising the callback's
\* result in the visited registry under the value's storage address.
DeepCloneClonerMemo ==
  /\ At("deepClone", "start")
  /\ Route(Top.src, cloners) = "cloner"
  /\ LET keyed == Top.src.k \in {"ptr", "slice", "map"} /\ Top.src.a # 0
     IN IF keyed /\ Pointer(Top.src) \in DOMAIN visited
        THEN /\ Return(visited[Pointer(Top.src)], "")
             /\ UNCHANGED <<visited, calls>>
        ELSE \E out \in CallbackResults(Dyn(Top.src)) :
               /\ calls' = Append(calls, [via |-> "Cloner", arg |-> Dyn(Top.src), out |-> out])
               /\ Return(out.v, out.err)
               /\ visited' = IF keyed /\ out.err = ""
                              THEN (Pointer(Top.src) :> out.v) @@ visited
                              ELSE visited
  /\ ran' = "deepClone"
  /\ UNCHANGED <<heap, cloners, input, probes>>

\* deepClone: return cloner.Clone(src.Interface(), cm)
DeepCloneCloner ==
  /\ At("deepClone", "start")
  /\ Route(Top.src, cloners) = "cloner"
  /\ Delegate("Cloner")
  /\ ran' = "deepClone"
  /\ UNCHANGED <<heap, visited, cloners, input, probes>>

\* deepClone: case reflect.Chan, reflect.Func
DeepCloneUnclonable ==
  /\ At("deepClone", "start")
  /\ Route(Top.src, cloners) = "unclonable"
  /\ Return(Nil, IF Top.src.k = "chan" THEN "channels cannot be cloned"
                 ELSE "functions cannot be cloned")
  /\ ran' = "deepClone"
  /\ UNCHANGED <<heap, visited, cloners, input, calls, probes>>

\* deepClone: default: return src.Interface(), nil
DeepCloneCopy ==
  /\ At("deepClone", "start")
  /\ Route(Top.src, cloners) = "copy"
  /\ Return(Top.src, "")
  /\ ran' = "deepClone"
  /\ UNCHANGED <<heap, visited, cloners, input, calls, probes>>

\* deepClone: switch src.Kind(), one of the six structural kinds: the call
\* of the kind's cloner.  The frame goes on as that cloner's.
Enter(k) ==
  /\ At("deepClone", "start")
  /\ Route(Top.src, cloners) = "structural"
  /\ Top.src.k = k

As(fn) == [Top EXCEPT !.fn = fn]

\* clonePtr, up to the recursive call: nil test, registry probe.
ClonePtrStart ==
  /\ Enter("ptr")
  /\ IF IsNil(Top.src)
     THEN Return(Nil, "") /\ probes' = probes
     ELSE /\ probes' = probes + 1
          /\ IF Pointer(Top.src) \in DOMAIN visited
             THEN Return(visited[Pointer(Top.src)], "")
             ELSE Call([As("clonePtr") EXCEPT !.pc = "wait"], Elem(heap, Top.src))
  /\ ran' = "clonePtr"
  /\ UNCHANGED <<heap, visited, cloners, input, calls>>

\* clonePtr, from the return of the recursive call: reflect.New, Set, and
\* only then the registration.
ClonePtrFinish ==
  /\ At("clonePtr", "wait")
  /\ IF Failed(ret)
     THEN Return(Nil, ret.err) /\ UNCHANGED <<heap, visited>>
     ELSE LET slot == Elem(heap, Top.src)
              new == Len(heap) + 1
              clonePtr == PtrV(Top.src.ty, new, 0)
          IN IF ~Assignable(slot, ret.v)
             THEN /\ heap' = Append(heap, Mem(<<Zero(slot)>>))
                  /\ visited' = visited
                  /\ Panic
             ELSE /\ heap' = Append(heap, Mem(<<Stored(slot, ret.v)>>))
                  /\ visited' = (Pointer(Top.src) :> clonePtr) @@ visited
                  /\ Return(clonePtr, "")
  /\ ran' = "clonePtr"
  /\ UNCHANGED <<cloners, input, calls, probes>>

\* cloneSlice: the loop head, for i := 0; i < src.Len(); i++
SliceLoop(f, h) ==
  IF f.i < f.src.len
  THEN Call([f EXCEPT !.pc = "wait"], Index(h, f.src, f.i))
  ELSE Return(f.clone, "")

\* The clone is the source's own slice header: a shallow copy.
MakeSliceShared(src, new) == src

\* reflect.MakeSlice(src.Type(), src.Len(), src.Cap()), in the fresh block new
MakeSlice(src, new) == SliceV(src.ty, new, 0, src.len, src.cap)

\* cloneSlice, up to the first recursive call: nil test, registry probe,
\* MakeSlice, registration.
CloneSliceStart ==
  /\ Enter("slice")
  /\ IF IsNil(Top.src)
     THEN Return(Nil, "") /\ UNCHANGED <<heap, visited, probes>>
     ELSE /\ probes' = probes + 1
          /\ IF Pointer(Top.src) \in DOMAIN visited
             THEN Return(visited[Pointer(Top.src)], "") /\ UNCHANGED <<heap, visited>>
             ELSE LET new == Len(heap) + 1
                      clone == MakeSlice(Top.src, new)
                      zeros == [j \in 1..Top.src.cap |->
                                  Zero(heap[Top.src.a].e[Top.src.off + j])]
                  IN /\ heap' = Append(heap, Mem(zeros))
                     /\ visited' = (Pointer(Top.src) :> clone) @@ visited
                     /\ SliceLoop([As("cloneSlice") EXCEPT !.clone = clone, !.i = 0], heap)
  /\ ran' = "cloneSlice"
  /\ UNCHANGED <<cloners, input, calls>>

\* cloneSlice, from the return of deepClone(src.Index(i)).
CloneSliceElem ==
  /\ At("cloneSlice", "wait")
  /\ IF Failed(ret)
     THEN Return(Nil, ret.err) /\ heap' = heap
     ELSE LET slot == Index(heap, Top.src, Top.i)
          IN IF ~Assignable(slot, ret.v)
             THEN Panic /\ heap' = heap
             ELSE LET h == SetSlot(heap, Top.clone.a, Top.clone.off + Top.i + 1,
                                   Stored(slot, ret.v))
                  IN /\ heap' = h
                     /\ SliceLoop([Top EXCEPT !.i = Top.i + 1], h)
  /\ ran' = "cloneSlice"
  /\ UNCHANGED <<visited, cloners, input, calls, probes>>

\* cloneArray: the loop head; elements are numbered from 1 here.
ArrayLoop(f) ==
  IF f.i <= Len(f.src.sub)
  THEN Call([f EXCEPT !.pc = "wait"], f.src.sub[f.i])
  ELSE Return(f.clone, "")

\* cloneArray, up to the first recursive call; the clone starts as
\* reflect.New(src.Type()).Elem(), the zero array.
CloneArrayStart ==
  /\ Enter("array")
  /\ ArrayLoop([As("cloneArray") EXCEPT !.clone = Zero(Top.src), !.i = 1])
  /\ ran' = "cloneArray"
  /\ UNCHANGED <<heap, visited, cloners, input, calls, probes>>

\* cloneArray, from the return of deepClone(elem).
CloneArrayElem ==
  /\ At("cloneArray", "wait")
  /\ IF Failed(ret)
     THEN Return(Nil, ret.err)
     ELSE LET slot == Top.src.sub[Top.i]
          IN IF ~Assignable(slot, ret.v)
             THEN Panic
             ELSE ArrayLoop([Top EXCEPT !.clone.sub[Top.i] = Stored(slot, ret.v),
                                        !.i = Top.i + 1])
  /\ ran' = "cloneArray"
  /\ UNCHANGED <<heap, visited, cloners, input, calls, probes>>

\* cloneMap: the loop head, for _, key := range src.MapKeys(); the order of
\* the keys is not specified.
MapLoop(f) ==
  IF f.keys = {}
  THEN Return(f.clone, "")
  ELSE \E key \in f.keys : Call([f EXCEPT !.pc = "waitKey", !.key = key], key)

\* cloneMap, up to the first recursive call: nil test, registry probe,
\* MakeMapWithSize, registration.
CloneMapStart ==
  /\ Enter("map")
  /\ IF IsNil(Top.src)
     THEN Return(Nil, "") /\ UNCHANGED <<heap, visited, probes>>
     ELSE /\ probes' = probes + 1
          /\ IF Pointer(Top.src) \in DOMAIN visited
             THEN Return(visited[Pointer(Top.src)], "") /\ UNCHANGED <<heap, visited>>
             ELSE LET new == Len(heap) + 1
                      clone == MapV(Top.src.ty, new)
                  IN /\ heap' = Append(heap, MapObj({}))
                     /\ visited' = (Pointer(Top.src) :> clone) @@ visited
                     /\ MapLoop([As("cloneMap") EXCEPT !.clone = clone,
                                                       !.keys = MapKeys(heap, Top.src)])
  /\ ran' = "cloneMap"
  /\ UNCHANGED <<cloners, input, calls>>

\* cloneMap, from the return of deepClone(key).
CloneMapKey ==
  /\ At("cloneMap", "waitKey")
  /\ IF Failed(ret)
     THEN Return(Nil, ret.err)
     ELSE Call([Top EXCEPT !.pc = "waitVal", !.ck = ret.v],
               MapIndex(heap, Top.src, Top.key))
  /\ ran' = "cloneMap"
  /\ UNCHANGED <<heap, visited, cloners, input, calls, probes>>

\* cloneMap, from the return of deepClone(src.MapIndex(key)): SetMapIndex.
CloneMapValue ==
  /\ At("cloneMap", "waitVal")
  /\ IF Failed(ret)
     THEN Return(Nil, ret.err) /\ heap' = heap
     ELSE LET slot == MapIndex(heap, Top.src, Top.key)
          IN IF \/ ~Assignable(Top.key, Top.ck)
                \/ IsValid(ret.v) /\ ~Assignable(slot, ret.v)
             THEN Panic /\ heap' = heap
             ELSE /\ heap' = SetMapIndex(heap, Top.clone.a, Stored(Top.key, Top.ck),
                                         slot, ret.v)
                  /\ MapLoop([Top EXCEPT !.keys = Top.keys \ {Top.key}])
  /\ ran' = "cloneMap"
  /\ UNCHANGED <<visited, cloners, input, calls, probes>>

\* Every field is taken to be settable.
CanSetAlways(src, i) == TRUE

\* clonedFieldRef.CanSet(): the field is exported.
CanSet(src, i) == i \notin src.ro

\* The first field from i on that can be set, Len + 1 when there is none.
RECURSIVE NextSettable(_, _)
NextSettable(src, i) ==
  IF i > Len(src.sub) \/ CanSet(src, i) THEN i ELSE NextSettable(src, i + 1)

\* cloneStruct: the loop head; fields are numbered from 1 here.
StructLoop(f) ==
  LET j == NextSettable(f.src, f.i)
  IN IF j <= Len(f.src.sub)
     THEN Call([f EXCEPT !.pc = "wait", !.i = j], f.src.sub[j])
     ELSE Return(f.clone, "")

\* cloneStruct, up to the first recursive call; the clone starts as
\* reflect.New(src.Type()).Elem(), the zero record.
CloneStructStart ==
  /\ Enter("struct")
  /\ StructLoop([As("cloneStruct") EXCEPT !.clone = Zero(Top.src), !.i = 1])
  /\ ran' = "cloneStruct"
  /\ UNCHANGED <<heap, visited, cloners, input, calls, probes>>

\* cloneStruct, from the return of deepClone(field): the field is set only
\* when clonedField != nil.
CloneStructField ==
  /\ At("cloneStruct", "wait")
  /\ IF Failed(ret)
     THEN Return(Nil, ret.err)
     ELSE LET slot == Top.src.sub[Top.i]
          IN IF ~IsValid(ret.v)
             THEN StructLoop([Top EXCEPT !.i = Top.i + 1])
             ELSE IF ~Assignable(slot, ret.v)
                  THEN Panic
                  ELSE StructLoop([Top EXCEPT !.clone.sub[Top.i] = Stored(slot, ret.v),
                                              !.i = Top.i + 1])
  /\ ran' = "cloneStruct"
  /\ UNCHANGED <<heap, visited, cloners, input, calls, probes>>

\* cloneInterface, up to the recursive call on src.Elem().
CloneInterfaceStart ==
  /\ Enter("iface")
  /\ IF IsNil(Top.src)
     THEN Return(Nil, "")
     ELSE Call([As("cloneInterface") EXCEPT !.pc = "wait"], Top.src.sub[1])
  /\ ran' = "cloneInterface"
  /\ UNCHANGED <<heap, visited, cloners, input, calls, probes>>

\* cloneInterface, from the return of the recursive call:
\* reflect.ValueOf(clonedValue).Convert(src.Type()).Interface()
CloneInterfaceFinish ==
  /\ At("cloneInterface", "wait")
  /\ IF Failed(ret)
     THEN Return(Nil, ret.err)
     ELSE IF ~IsValid(ret.v) THEN Panic ELSE Return(ret.v, "")
  /\ ran' = "cloneInterface"
  /\ UNCHANGED <<heap, visited, cloners, input, calls, probes>>

Next ==
  \/ \E t \in RegTypes : RegisterCloner(t)
  \/ Clone
  \/ DeepCloneInvalid
  \/ DeepCloneCloneable
  \/ DeepCloneCloner
  \/ DeepCloneUnclonable
  \/ DeepCloneCopy
  \/ ClonePtrStart
  \/ ClonePtrFinish
  \/ CloneSliceStart
  \/ CloneSliceElem
  \/ CloneArrayStart
  \/ CloneArrayElem
  \/ CloneMapStart
  \/ CloneMapKey
  \/ CloneMapValue
  \/ CloneStructStart
  \/ CloneStructField
  \/ CloneInterfaceStart
  \/ CloneInterfaceFinish

Spec == Init /\ [][Next]_vars

----------------------------------------------------------------------------
(* One CloneManager used for several top-level calls, through Clone or     *)
(* through the typed wrapper, with the caller writing to the source in     *)
(* between.  The graphs here have no pointer cycle; the backing array 2 may *)
(* be seen through two slice headers, s[0:1] and s[0:2], and through the    *)
(* pointer &s[0], and the pointer type *Node may have a registered cloner.  *)

\* s[0:1] of the slice s == TheSlice(st): same start address, shorter length
HeadSlice(st) == SliceV(st, 2, 0, 1, 2)

\* &s[0] for s == TheSlice("[]any"): a pointer whose address is the start
\* address of the backing array of s
ElemPtr == PtrV("*any", 2, 0)

ExtTypes == RegTypes \cup {"*Node"}

SessionNode == NodeV(IfaceV(Int1), NilNodePtr, IfaceV(ChanV))

SessionElems(st) ==
  IF st = "[]*Node"
  THEN {<<NodePtr, NodePtr>>}
  ELSE {<<IfaceV(Int1), IfaceV(Int2)>>,
        <<IfaceV(Int1), IfaceV(ChanV)>>,
        <<IfaceV(IntV("Money", 1)), IfaceV(Int1)>>,
        <<IfaceV(IntV("Stamp", 1)), IfaceV(Int1)>>}

SessionMaps(st) ==
  {{<<IfaceV(Int1), IfaceV(Int1)>>}} \cup
  (IF st = "[]any"
   THEN {{<<IfaceV(Int1), IfaceV(HeadSlice(st))>>, <<IfaceV(Int2), IfaceV(TheSlice(st))>>},
         {<<IfaceV(Int1), IfaceV(ElemPtr)>>, <<IfaceV(Int2), IfaceV(TheSlice(st))>>}}
   ELSE {})

SessionInputs(st) ==
  {Nil, Int1, NilNodePtr, NodePtr, TheSlice(st), HeadSlice(st), TheMap, Arr1(IfaceV(Int1))}

\* The inputs of a later call on the same manager.
LaterInputs(st) == {NodePtr, TheSlice(st), HeadSlice(st), TheMap}

\* The slice type the backing array 2 of the heap h was made for.
SliceTypeOf(h) == IF h[2].e[1].k = "ptr" THEN "[]*Node" ELSE "[]any"

\* The top-level calls that have returned on this manager, the latest excluded.
Earlier == {i \in DOMAIN calls : calls[i].via = "Clone"}

InitSession ==
  \E st \in SliceTypes :
    \E es \in SessionElems(st), mp \in SessionMaps(st), inp \in SessionInputs(st) :
      /\ heap = <<Mem(<<SessionNode>>), Mem(es), MapObj(mp)>>
      /\ input = inp
      /\ visited = <<>>
      /\ cloners = {}
      /\ stack = <<>>
      /\ ret = NoRet
      /\ result = Outcome("idle", Nil, "")
      /\ calls = <<>>
      /\ entered = {}
      /\ probes = 0
      /\ ran = ""

\* A further cm.Clone(src) on the manager of a call that has returned: the
\* visited registry is the one the earlier calls left.
CloneAgain ==
  /\ result.st = "returned"
  /\ Cardinality(Earlier) + 1 < MaxCalls
  /\ \E inp \in LaterInputs(SliceTypeOf(heap)) :
       /\ input' = inp
       /\ stack' = <<Frame("deepClone", "start", inp)>>
       /\ entered' = entered \cup {inp}
  /\ calls' = Append(calls, [via |-> "Clone", arg |-> input,
                              out |-> [v |-> result.v, err |-> result.err]])
  /\ result' = Outcome("running", Nil, "")
  /\ ran' = "Clone"
  /\ UNCHANGED <<heap, visited, cloners, ret, probes>>

\* The caller writes to the source between two calls: s[0] = 2.
Mutate ==
  /\ result.st = "returned"
  /\ Cardinality(Earlier) + 1 < MaxCalls
  /\ heap[2].e[1].k = "iface"
  /\ heap[2].e[1] # IfaceV(Int2)
  /\ heap' = SetSlot(heap, 2, 1, IfaceV(Int2))
  /\ UNCHANGED <<visited, cloners, stack, ret, result, input, calls, entered, probes, ran>>

\* The kinds reflect.Value.IsNil accepts; on any other kind, and on the zero
\* reflect.Value, it panics.
CanBeNil(v) == v.k \in {"ptr", "slice", "map", "chan", "func"}

\* Clone[T](cm, src), up to its call of cm.Clone(src): var result T, and the
\* nil probe reflect.ValueOf(src).IsNil(), made whatever T is.
CloneT ==
  /\ result.st = "idle"
  /\ IF ~CanBeNil(input)
     THEN /\ stack' = <<>>
          /\ result' = Outcome("panic", Nil, "")
          /\ entered' = entered
     ELSE IF IsNil(input)
          THEN /\ stack' = <<>>
               /\ result' = Outcome("returned", Zero(input), "")
               /\ entered' = entered
          ELSE /\ stack' = <<Frame("CloneT", "typed", input),
                             Frame("deepClone", "start", input)>>
               /\ result' = Outcome("running", Nil, "")
               /\ entered' = entered \cup {input}
  /\ ran' = "CloneT"
  /\ UNCHANGED <<heap, visited, cloners, ret, input, calls, probes>>

\* Clone[T], from the return of cm.Clone(src): the error check and the type
\* assertion clonedValue.(T).
CloneTFinish ==
  /\ At("CloneT", "typed")
  /\ IF Failed(ret)
     THEN Return(Zero(Top.src), ret.err)
     ELSE IF IsValid(ret.v) /\ ret.v.ty = Top.src.ty
          THEN Return(ret.v, "")
          ELSE Return(Zero(Top.src), "failed to cast cloned value to the original type")
  /\ ran' = "CloneT"
  /\ UNCHANGED <<heap, visited, cloners, input, calls, probes>>

NextSession ==
  \/ \E t \in ExtTypes : RegisterCloner(t)
  \/ Clone
  \/ CloneAgain
  \/ Mutate
  \/ CloneT
  \/ CloneTFinish
  \/ DeepCloneInvalid
  \/ DeepCloneCloneable
  \/ DeepCloneCloner
  \/ DeepCloneUnclonable
  \/ DeepCloneCopy
  \/ ClonePtrStart
  \/ ClonePtrFinish
  \/ CloneSliceStart
  \/ CloneSliceElem
  \/ CloneArrayStart
  \/ CloneArrayElem
  \/ CloneMapStart
  \/ CloneMapKey
  \/ CloneMapValue
  \/ CloneStructStart
  \/ CloneStructField
  \/ CloneInterfaceStart
  \/ CloneInterfaceFinish

SpecSession == InitSession /\ [][NextSession]_vars

----------------------------------------------------------------------------
(* Locations.  A location of a graph is a path of steps from its root: the *)
(* referent of a pointer, an element of a slice or array, a field of a     *)
(* record that can be set, the dynamic value of an interface, a key of a   *)
(* map or the value under a key.                                           *)

Step(s, i, key) == [s |-> s, i |-> i, key |-> key]
Missing == MkV("missing", "")

Steps(h, v) ==
  CASE v.k = "ptr" /\ v.a \in DOMAIN h -> {Step("elem", 0, Nil)}
    [] v.k = "slice" /\ v.a \in DOMAIN h -> {Step("index", i, Nil) : i \in 0..(v.len - 1)}
    [] v.k = "array" -> {Step("index", i, Nil) : i \in DOMAIN v.sub}
    [] v.k = "struct" -> {Step("field", i, Nil) : i \in DOMAIN v.sub \ v.ro}
    [] v.k = "iface" /\ v.sub # <<>> -> {Step("dyn", 0, Nil)}
    [] v.k = "map" /\ v.a \in DOMAIN h ->
         UNION {{Step("key", 0, k), Step("value", 0, k)} : k \in MapKeys(h, v)}
    [] OTHER -> {}

\* The value one step from v, Missing when v has no such step.
Follow(h, v, st) ==
  IF st \notin Steps(h, v) THEN Missing
  ELSE CASE st.s = "elem" -> Elem(h, v)
         [] st.s = "index" -> IF v.k = "slice" THEN Index(h, v, st.i) ELSE v.sub[st.i]
         [] st.s = "field" -> v.sub[st.i]
         [] st.s = "dyn" -> v.sub[1]
         [] st.s = "key" -> st.key
         [] OTHER -> MapIndex(h, v, st.key)

RECURSIVE Get(_, _, _)
Get(h, v, path) ==
  IF path = <<>> THEN v ELSE Get(h, Follow(h, v, Head(path)), Tail(path))

\* The locations of the graph of v, d steps deep.
RECURSIVE Paths(_, _, _)
Paths(h, v, d) ==
  IF d = 0 THEN {<<>>}
  ELSE {<<>>} \cup UNION {{<<st>> \o p : p \in Paths(h, Follow(h, v, st), d - 1)}
                            : st \in Steps(h, v)}

\* v is a pointer, slice or map that is not nil: a value with an identity.
IsRef(v) == v.k \in {"ptr", "slice", "map"} /\ v.a # 0

\* x and y are the identical pointer, slice backing storage or map.
SameObject(x, y) == IsRef(x) /\ IsRef(y) /\ x.k = y.k /\ Pointer(x) = Pointer(y)

\* Some object of the graph of v is reachable from itself.
Cyclic(h, v) == \E a \in Reach(h, v) : a \in ReachFrom(h, {}, RefsO(h[a]))

\* The graph of v unfolded to a tree d levels deep, storage addresses left out.
RECURSIVE View(_, _, _)
View(h, v, d) ==
  LET node(kids, ents) ==
        [k |-> v.k, ty |-> v.ty, n |-> v.n, nil |-> IsNil(v), len |-> v.len,
         cap |-> v.cap, kids |-> kids, ents |-> ents]
  IN IF d = 0 THEN node(<<>>, {})
     ELSE CASE v.k \in {"ptr", "slice"} /\ v.a \in DOMAIN h ->
                 node([i \in 1..(IF v.k = "ptr" THEN 1 ELSE v.len) |->
                         View(h, h[v.a].e[v.off + i], d - 1)], {})
            [] v.k = "map" /\ v.a \in DOMAIN h ->
                 node(<<>>, {<<View(h, en[1], d - 1), View(h, en[2], d - 1)>> :
                               en \in h[v.a].m})
            [] v.k = "struct" ->
                 node([i \in DOMAIN v.sub |->
                         IF i \in v.ro THEN Missing ELSE View(h, v.sub[i], d - 1)], {})
            [] v.k \in {"array", "iface"} ->
                 node([i \in DOMAIN v.sub |-> View(h, v.sub[i], d - 1)], {})
            [] OTHER -> node(<<>>, {})

Done == result.st \in {"returned", "panic", "overflow"}
Ok == result.st = "returned" /\ result.err = ""

\* v is claimed by self-cloning or by a registered cloner.
Claimed(v) == Dyn(v).ty \in CloneableTypes \/ v.ty \in cloners

\* The values at the locations of the input.
Parts == {Get(heap, input, p) : p \in Paths(heap, input, MaxView)}

----------------------------------------------------------------------------
(* Claims *)

\* C1: Clone of a source graph that contains a reference cycle terminates:
\* the chain of deepClone calls never descends without bound, so the call
\* never runs out of stack.
C1_CycleTerminates == Cyclic(heap, input) => result.st # "overflow"

\* C2: while clonePtr, cloneSlice or cloneMap is inside a deepClone call for
\* the contents of its value (or has just got the result back and not yet
\* stored it), the visited registry holds an entry for that value's identity.
C2_RegisterBeforeRecurse ==
  \A i \in DOMAIN stack :
    /\ stack[i].fn \in {"clonePtr", "cloneSlice", "cloneMap"}
    /\ stack[i].pc \in {"wait", "waitKey", "waitVal"}
    => Pointer(stack[i].src) \in DOMAIN visited

\* C3: when Clone returns a clone, any two locations of the source that hold
\* the identical pointer, slice or map correspond to two locations of the
\* clone that hold one identical object, which is not the source object.
C3_AliasingPreserved ==
  Ok =>
    \A p, q \in Paths(heap, input, MaxView) :
      LET x == Get(heap, input, p)
          y == Get(heap, input, q)
          cx == Get(heap, result.v, p)
          cy == Get(heap, result.v, q)
      IN SameObject(x, y) => SameObject(cx, cy) /\ cx.k = x.k /\ cx.a # x.a

\* C4: when Clone of a cyclic graph returns a clone, a path that leads in the
\* source from an object back to that object leads in the clone from the
\* corresponding object back to it.
C4_CycleTopology ==
  Ok =>
    \A p, q \in Paths(heap, input, MaxView) :
      /\ Len(p) < Len(q)
      /\ SubSeq(q, 1, Len(p)) = p
      /\ SameObject(Get(heap, input, p), Get(heap, input, q))
      => Get(heap, result.v, q) = Get(heap, result.v, p)

\* The input is acyclic and built from scalars, pointers, slices, arrays,
\* maps, records and interfaces only, none of a self-cloning or registered type.
PlainAcyclic ==
  /\ ~Cyclic(heap, input)
  /\ \A x \in Parts : x.k \notin {"chan", "func"} /\ ~Claimed(x)

\* C5: Clone of an acyclic value built from scalars, pointers, slices, arrays,
\* maps, records and interfaces, absent ones included, returns without error
\* a value structurally equal to the source (nil for an absent source).
C5_CloneEqualsSource ==
  PlainAcyclic /\ result.st # "idle" =>
    /\ result.st \in {"running", "returned"}
    /\ result.st = "returned" =>
         /\ result.err = ""
         /\ IF IsNil(input) THEN result.v = Nil
            ELSE View(heap, result.v, MaxView) = View(heap, input, MaxView)

\* C6: after a successful Clone no storage reachable from the clone is
\* storage reachable from the source.
C6_Independence == Ok => Reach(heap, result.v) \cap Reach(heap, input) = {}

C6_Witness ==
  /\ Ok
  /\ Cardinality(Reach(heap, input)) >= 2
  /\ Cardinality(Reach(heap, result.v)) >= 2

\* The input is an absent pointer, slice or map, or the nil interface.
AbsentInput == (input.k \in {"ptr", "slice", "map"} /\ input.a = 0) \/ input = Nil

\* The original C7: Clone of any absent pointer, slice, map or interface
\* returns nil and no error, without a registry lookup and without allocating.
C7_AbsentAlways ==
  AbsentInput =>
    /\ visited = <<>> /\ probes = 0 /\ Len(heap) = 3
    /\ Done => result = Outcome("returned", Nil, "")

\* C7, amended: Clone of an absent pointer, slice or map whose type is
\* neither self-cloning nor registered, or of the nil interface, returns nil
\* and no error, without a registry lookup and without allocating.
C7_AbsentStructural ==
  AbsentInput /\ ~Claimed(input) =>
    /\ visited = <<>> /\ probes = 0 /\ Len(heap) = 3
    /\ Done => result = Outcome("returned", Nil, "")

C7_Witness ==
  /\ input.k = "slice" /\ IsNil(input)
  /\ result = Outcome("returned", Nil, "")

\* A channel or function value that no callback claims has reached deepClone.
ReachedUnclonable == \E v \in entered : v.k \in {"chan", "func"} /\ ~Claimed(v)

\* C8: once deepClone has been called on a channel or function value that
\* no callback claims, the Clone call ends by returning an error and nil.
C8_UnclonableFails ==
  ReachedUnclonable =>
    \/ result.st = "running"
    \/ result.st = "returned" /\ result.err # "" /\ result.v = Nil

C8_Witness ==
  /\ result.st = "returned" /\ result.err = "functions cannot be cloned"
  /\ input.k = "ptr"
  /\ probes >= 2

\* C9: a cloner that gets an error back from a nested deepClone call returns
\* nil and that error in its very next step, calling deepClone on no further
\* sibling and storing nothing; at the bottom, Clone returns nil and the error.
C9_FailureIsTerminal ==
  [][(stack # <<>> /\ Top.pc \in {"wait", "waitKey", "waitVal"} /\ ret.err # "")
       => /\ stack' = Callers
          /\ ret' = [v |-> Nil, err |-> ret.err]
          /\ entered' = entered
          /\ heap' = heap /\ visited' = visited
          /\ Len(stack) = 1 => result' = Outcome("returned", Nil, ret.err)]_vars

C9_Witness ==
  /\ result.st = "returned" /\ result.err # "" /\ result.v = Nil
  /\ input.k = "slice"
  /\ Index(heap, input, 0) = IfaceV(ChanV)
  /\ Index(heap, input, 1) = IfaceV(NodePtr)
  /\ IfaceV(NodePtr) \notin entered

\* The structural cloner the claim names for each kind.
NamedCloner(k) ==
  CASE k = "ptr" -> "clonePtr"
    [] k = "slice" -> "cloneSlice"
    [] k = "array" -> "cloneArray"
    [] k = "map" -> "cloneMap"
    [] k = "struct" -> "cloneStruct"
    [] k = "iface" -> "cloneInterface"
    [] OTHER -> "deepClone"

\* C10: the step deepClone takes for src follows the priority order: the
\* Clone method of a Cloneable; else the registered cloner of its type; else
\* the structural cloner of its kind; channels and functions fail; any other
\* kind is returned as it is; an invalid src returns nil and no error.
C10_DispatchPriority ==
  [][At("deepClone", "start") =>
       LET src == Top.src
           called == Len(calls') = Len(calls) + 1
           direct == stack' = Callers /\ heap' = heap /\ visited' = visited
       IN CASE ~IsValid(src) ->
                 direct /\ ~called /\ ret' = NoRet /\ ran' = "deepClone"
            [] Dyn(src).ty \in CloneableTypes ->
                 /\ direct /\ called /\ ran' = "deepClone"
                 /\ calls'[Len(calls')].via = "Cloneable"
                 /\ calls'[Len(calls')].arg = Dyn(src)
                 /\ ret' = calls'[Len(calls')].out
            [] src.ty \in cloners ->
                 /\ direct /\ called /\ ran' = "deepClone"
                 /\ calls'[Len(calls')].via = "Cloner"
                 /\ calls'[Len(calls')].arg = src
                 /\ ret' = calls'[Len(calls')].out
            [] src.k \in {"ptr", "slice", "array", "map", "struct", "iface"} ->
                 ~called /\ ran' = NamedCloner(src.k)
            [] src.k \in {"chan", "func"} ->
                 direct /\ ~called /\ ran' = "deepClone" /\ ret'.v = Nil /\ ret'.err # ""
            [] OTHER ->
                 direct /\ ~called /\ ran' = "deepClone" /\ ret' = [v |-> src, err |-> ""]
    ]_vars

C10_Witness ==
  /\ "Money" \in cloners
  /\ Len(calls) = 1
  /\ calls[1].via = "Cloneable"
  /\ calls[1].arg = IntV("Money", 1)
  /\ input.k = "slice"
  /\ result.st = "returned"

\* A call runs out of stack on a cyclic graph only.
OverflowOnlyOnCycles == result.st = "overflow" => Cyclic(heap, input)

\* The callbacks made through the Cloner interface during the running or
\* latest top-level call.
ClonerCalls ==
  {i \in DOMAIN calls : calls[i].via = "Cloner" /\ \A j \in Earlier : j < i}

\* No value on the way from the input to the location p is handed over to a
\* callback as a whole; the interface slot that holds the value at p is not
\* on the way, it is the same occurrence.
EngineReached(p) ==
  \A i \in 0..(Len(p) - 1) :
    LET v == Get(heap, input, SubSeq(p, 1, i))
    IN ~Claimed(v) \/ (i = Len(p) - 1 /\ v.k = "iface")

\* The original C11: after a successful cm.Clone, for every location of the
\* source that the engine itself descends to and that holds a value of a
\* registered type, the registered cloner was invoked on that value.
C11_EveryOccurrence ==
  Ok /\ Earlier = {} /\ ran # "CloneT" =>
    \A p \in Paths(heap, input, MaxView) :
      LET x == Get(heap, input, p)
      IN EngineReached(p) /\ x.ty \in cloners => \E i \in ClonerCalls : calls[i].arg = x

\* C11, amended: whenever deepClone is called on a value whose type has a
\* registered cloner and that does not implement Cloneable, wherever the
\* value is nested, that cloner is invoked on the value, its result is what
\* deepClone returns and no structural cloner runs; a registered cloner is
\* invoked on values of exactly its type only.
C11_RegisteredEncounter ==
  [][LET registered == /\ At("deepClone", "start")
                       /\ IsValid(Top.src)
                       /\ Top.src.ty \in cloners
                       /\ Dyn(Top.src).ty \notin CloneableTypes
         invoked == /\ Len(calls') > Len(calls)
                    /\ calls'[Len(calls')].via = "Cloner"
     IN /\ registered =>
             /\ calls' = Append(calls, [via |-> "Cloner", arg |-> Top.src, out |-> ret'])
             /\ stack' = Callers
             /\ heap' = heap
             /\ ran' = "deepClone"
        /\ invoked =>
             /\ At("deepClone", "start")
             /\ calls'[Len(calls')].arg = Top.src
             /\ Top.src.ty \in cloners
    ]_vars

C11_Witness ==
  /\ "*Node" \in cloners
  /\ input = TheSlice("[]*Node")
  /\ Ok
  /\ Cardinality({i \in ClonerCalls : calls[i].arg = NodePtr}) = 2
  /\ Len(heap) = 4

\* C12: Clone[T] called with a T that cannot be absent (an integer, a record,
\* a fixed array) makes no absence probe and completes normally: the call
\* returns a value or an error, it never crashes.
C12_TypedGuard ==
  ran = "CloneT" /\ input.k \in {"int", "struct", "array"} => result.st # "panic"

\* C13: a later Clone call on the same manager does not depend on the earlier
\* ones: cloning a pointer, slice or map that an earlier call has cloned
\* yields a clone distinct from the earlier one, equal to the source as it is
\* at the time of the later call.
C13_FreshPerCall ==
  Ok /\ IsRef(input) /\ ~Claimed(input) =>
    \A i \in Earlier :
      calls[i].arg = input /\ calls[i].out.err = "" =>
        /\ result.v # calls[i].out.v
        /\ View(heap, result.v, MaxView) = View(heap, input, MaxView)

\* C14: a step of a Clone call in which no Cloneable or Cloner callback has
\* run leaves the three objects of the source graph as they were: every
\* pointer referent, slice element, map entry and record field of the source
\* keeps its value, whether the call goes on, succeeds or fails.
C14_SourceUntouched ==
  [][calls' = <<>> => \A a \in 1..3 : heap'[a] = heap[a]]_vars

C14_Witness ==
  /\ calls = <<>>
  /\ result.st = "returned"
  /\ Len(heap) >= 5
  /\ \E a \in 4..Len(heap) : heap[a] \notin {heap[1], heap[2], heap[3]}

\* v is an absent pointer, slice, map or interface.
Absent(v) ==
  \/ v.k \in {"ptr", "slice", "map"} /\ v.a = 0
  \/ v.k = "iface" /\ v.sub = <<>>

\* The locations inside the input that hold an absent value.
AbsentInside ==
  {p \in Paths(heap, input, MaxView) : p # <<>> /\ Absent(Get(heap, input, p))}

\* C15: cloning a composite that holds an absent pointer, slice, map or
\* interface somewhere inside does not fail, and the corresponding location of
\* the clone is present and holds absent; a map entry whose value is absent
\* is an entry of the cloned map.
C15_NestedAbsence ==
  PlainAcyclic /\ AbsentInside # {} /\ result.st # "idle" =>
    /\ result.st \in {"running", "returned"}
    /\ result.st = "returned" =>
         /\ result.err = ""
         /\ \A p \in AbsentInside : Absent(Get(heap, result.v, p))

\* C16: whenever deepClone returns without error for a slice that is not
\* absent and that no callback claims, the value it returns is a slice of
\* that slice's type, length and capacity, also when another slice header
\* over the same backing array was cloned before in the same top-level call
\* (the first call on a fresh manager).
C16_SliceShape ==
  [][(/\ stack # <<>> /\ Earlier = {}
      /\ Top.fn \in {"deepClone", "cloneSlice"}
      /\ Top.src.k = "slice" /\ ~IsNil(Top.src) /\ ~Claimed(Top.src)
      /\ stack' = Callers
      /\ result'.st \notin {"panic", "overflow"}
      /\ ret'.err = "")
     => /\ ret'.v.k = "slice" /\ ret'.v.ty = Top.src.ty
        /\ ret'.v.len = Top.src.len /\ ret'.v.cap = Top.src.cap
    ]_vars

\* C17: after a successful Clone in which no callback ran, every location of
\* the source that holds a map that is not absent corresponds to a location
\* of the clone that holds a map with as many entries, one under the clone of
\* each source key (the keys here are scalars, equal to their clones).
C17_MapEntries ==
  Ok /\ calls = <<>> =>
    \A p \in Paths(heap, input, MaxView) :
      LET m == Get(heap, input, p)
          c == Get(heap, result.v, p)
      IN m.k = "map" /\ ~IsNil(m) =>
           /\ c.k = "map" /\ c.a \in DOMAIN heap
           /\ Cardinality(heap[c.a].m) = Cardinality(heap[m.a].m)
           /\ \A key \in MapKeys(heap, m) : Dyn(key).k = "int" => key \in MapKeys(heap, c)

\* C18: in every step of cloneStruct that does not crash: a deepClone call it
\* makes is on a field that can be set; the value deepClone returned for a
\* field is what that field of the new record holds from then on (its zero
\* value when deepClone returned nil), the other fields staying as they are;
\* and the record it returns has the type of the source, with every field
\* that cannot be set at the zero value of its type.
C18_RecordFields ==
  [][(stack # <<>> /\ ran' = "cloneStruct" /\ result'.st \notin {"panic", "overflow"}) =>
       LET src == Top.src
           called == Len(stack') = Len(stack) + 1
           returned == stack' = Callers /\ ret'.err = ""
           record == IF called THEN stack'[Len(stack)].clone ELSE ret'.v
       IN /\ called =>
               /\ stack'[Len(stack)].fn = "cloneStruct"
               /\ stack'[Len(stack)].i \in DOMAIN src.sub \ src.ro
               /\ stack'[Len(stack')].src = src.sub[stack'[Len(stack)].i]
          /\ called \/ returned =>
               /\ record.k = "struct" /\ record.ty = src.ty
               /\ DOMAIN record.sub = DOMAIN src.sub
               /\ \A i \in src.ro : record.sub[i] = Zero(src.sub[i])
          /\ (At("cloneStruct", "wait") /\ ret.err = "") =>
               /\ called \/ returned
               /\ record.sub[Top.i] = IF IsValid(ret.v) THEN Stored(src.sub[Top.i], ret.v)
                                       ELSE Zero(src.sub[Top.i])
               /\ \A j \in DOMAIN src.sub \ {Top.i} : record.sub[j] = Top.clone.sub[j]
    ]_vars

C18_Witness ==
  /\ Ok /\ input = NodePtr /\ calls = <<>>
  /\ heap[1].e[1].sub[1] = IfaceV(Int1)
  /\ heap[1].e[1].sub[3] = IfaceV(ChanV)
  /\ result.v.a \in DOMAIN heap
  /\ heap[result.v.a].e[1].sub[1] = IfaceV(Int1)
  /\ heap[result.v.a].e[1].sub[3] = NilIface

\* The callbacks made during the running or latest top-level call.
Callbacks ==
  {i \in DOMAIN calls : calls[i].via \in {"Cloneable", "Cloner"} /\ \A j \in Earlier : j < i}

\* C19: the step in which deepClone hands a value to its Clone method or to
\* a registered cloner makes one callback and neither looks up nor changes
\* the visited registry; and after a successful cm.Clone of a slice whose two
\* elements are one and the same pointer of a claimed type, the callback has
\* been invoked on that pointer twice.
C19_ExtensionBoundary ==
  /\ [][(At("deepClone", "start") /\ IsValid(Top.src) /\ Claimed(Top.src)) =>
          /\ Len(calls') = Len(calls) + 1
          /\ visited' = visited
          /\ probes' = probes]_vars
  /\ [](Ok /\ Earlier = {} /\ ran # "CloneT" /\ input.k = "slice" /\ input.len = 2 =>
          LET x == Index(heap, input, 0)
          IN IsRef(x) /\ x.k = "ptr" /\ Claimed(x) /\ Index(heap, input, 1) = x =>
               Cardinality({i \in Callbacks : calls[i].arg = x}) = 2)

C19_Witness ==
  /\ Ok /\ Earlier = {} /\ ran # "CloneT"
  /\ input = TheSlice("[]*Node")
  /\ Index(heap, input, 0) = NodePtr /\ Index(heap, input, 1) = NodePtr
  /\ Claimed(NodePtr)
  /\ Cardinality({i \in Callbacks : calls[i].arg = NodePtr}) = 2
  /\ DOMAIN visited = {Pointer(input)}

\* C20: an entry of the visited registry, once created, is never removed and
\* never bound to another clone.
C20_RegistryMonotone ==
  [][\A id \in DOMAIN visited : id \in DOMAIN visited' /\ visited'[id] = visited[id]]_vars

\* deepClone stands at a pointer, slice or map whose storage address has an
\* entry in the visited registry: the lookup of its cloner will hit.
HitPending ==
  /\ At("deepClone", "start")
  /\ Route(Top.src, cloners) = "structural"
  /\ IsRef(Top.src)
  /\ Pointer(Top.src) \in DOMAIN visited

\* C21: within one call, whenever clonePtr, cloneSlice or cloneMap finds its
\* value's storage address in the visited registry, the stored clone has the
\* kind and type of the value being cloned: a pointer and a slice that share
\* a storage address never receive each other's clone.
C21_TypedHits ==
  HitPending /\ Earlier = {} =>
    /\ visited[Pointer(Top.src)].k = Top.src.k
    /\ visited[Pointer(Top.src)].ty = Top.src.ty

\* The slice or map clone registered under the storage address id lacks an
\* element of its source: a slot of the clone slice still holds the zero value
\* MakeSlice left there while the source slot holds a value, or the clone map
\* has fewer entries than its source.
Unfilled(id) ==
  LET c == visited[id]
  IN IF c.k = "slice"
     THEN \E i \in 0..(c.len - 1) :
            LET src == heap[id[1]].e[id[2] + i + 1]
            IN src # Zero(src) /\ Index(heap, c, i) = Zero(src)
     ELSE Cardinality(heap[c.a].m) < Cardinality(heap[id[1]].m)

\* The registered slice and map clones that the value v leads to.
ShellsIn(v) ==
  {id \in DOMAIN visited :
     visited[id].k \in {"slice", "map"} /\ visited[id].a \in Reach(heap, v)}

\* C22: whatever calls were made before on the same CloneManager, failed
\* ones included, a value that Clone returns with a nil error contains no
\* slice or map clone that lacks an element of its source: a clone that was
\* registered and then abandoned on an error is never handed out.
C22_CompleteClones == Ok => \A id \in ShellsIn(result.v) : ~Unfilled(id)

====
